---- MODULE Spec2Model ----
(***************************************************************************)
(* Order flow board: the in-memory DEMO state of src/src/lib/api.ts (order *)
(* table, status mapping table, move audit trail, area modes document),   *)
(* the operations exported on it, the Production page's move dialog, and  *)
(* the pure functions of api.ts applied to arguments of their own.        *)
(*                                                                         *)
(* JavaScript values are modelled as follows.  A string is a sequence of   *)
(* one-character strings, so that trim/split act on characters.  An       *)
(* object is a record; an optional field that was never assigned is       *)
(* absent from the record's DOMAIN, and reading it gives Undefined.       *)
(***************************************************************************)
EXTENDS Integers, Sequences, FiniteSets, TLC

VARIABLES _orders, _statusMappings, _moveAuditTrail, localStorage, result,
          _productionStatus, orders, statuses, areaModes, moveDialog, justification,
          args, returned,
          _issues, selectedOrder, issues, issueLoading, pending

apiVars  == <<_orders, _statusMappings, _moveAuditTrail, localStorage, result>>
pageVars == <<_productionStatus, orders, statuses, areaModes, moveDialog, justification>>
\* the arguments of a call of a pure function, and the value it returned
callVars == <<args, returned>>
\* the issue store of the API and the Warehouse page: its selection, the
\* issues it shows, and the calls it awaits
warehouseVars == <<_issues, selectedOrder, issues, issueLoading, pending>>
vars     == <<_orders, _statusMappings, _moveAuditTrail, localStorage, result,
              _productionStatus, orders, statuses, areaModes, moveDialog, justification,
              args, returned,
              _issues, selectedOrder, issues, issueLoading, pending>>

(***************************************************************************)
(* Bounds of the model.                                                    *)
(***************************************************************************)
MaxAudit == 1
\* the most tokens in a generated status string
MaxTokens == 3

(***************************************************************************)
(* JavaScript helpers.                                                     *)
(***************************************************************************)
\* undefined where a string is expected, and where an object is expected
Undefined == "undefined"
undefined == [undefined |-> TRUE]

\* o.f for an optional string-valued field f
Get(o, f) == IF f \in DOMAIN o THEN o[f] ELSE Undefined

\* truthiness of an optional boolean field (undefined is falsy)
Truthy(o, f) == f \in DOMAIN o /\ o[f] = TRUE

\* { ...o, ...patch }
Spread(o, patch) ==
  [f \in DOMAIN o \cup DOMAIN patch |-> IF f \in DOMAIN patch THEN patch[f] ELSE o[f]]

\* a character matched by /\s/
IsSpace(c) == c \in {" ", "\t"}

RECURSIVE trimStart(_)
trimStart(s) ==
  IF s # <<>> /\ IsSpace(Head(s)) THEN trimStart(Tail(s)) ELSE s

RECURSIVE trimEnd(_)
trimEnd(s) ==
  IF s # <<>> /\ IsSpace(s[Len(s)]) THEN trimEnd(SubSeq(s, 1, Len(s) - 1)) ELSE s

\* String.prototype.trim
trim(s) == trimEnd(trimStart(s))

\* s.split(/\s+/): the pieces between maximal runs of whitespace; a run at
\* the start or the end of s leaves an empty piece, and "" gives [""].
RECURSIVE split(_, _, _)
split(s, i, piece) ==
  IF i > Len(s) THEN <<piece>>
  ELSE IF IsSpace(s[i])
       THEN IF i > 1 /\ IsSpace(s[i - 1])
            THEN split(s, i + 1, piece)
            ELSE <<piece>> \o split(s, i + 1, <<>>)
       ELSE split(s, i + 1, Append(piece, s[i]))

\* .filter(Boolean) on an array of strings
filterBoolean(a) == SelectSeq(a, LAMBDA t : t # <<>>)

(***************************************************************************)
(* types.ts                                                                *)
(***************************************************************************)
Area == {"Orders", "Warehouse", "Production", "Logistics"}

AREAS == <<"Orders", "Warehouse", "Production", "Logistics">>

DEFAULT_AREA_MODES ==
  [Warehouse |-> "AUTO", Production |-> "AUTO", Logistics |-> "AUTO"]

(***************************************************************************)
(* Status tokens and the mock data (mockData.ts), scaled down.             *)
(***************************************************************************)
REL  == <<"R", "E", "L">>
GMPS == <<"G", "M", "P", "S">>
PCNF == <<"P", "C", "N", "F">>
CLSD == <<"C", "L", "S", "D">>

MOCK_STATUS_MAPPINGS ==
  << [id |-> "2",  system_status_value |-> REL,  mapped_area |-> "Orders",
      sort_order |-> 2, is_active |-> TRUE],
     [id |-> "4",  system_status_value |-> GMPS, mapped_area |-> "Warehouse",
      sort_order |-> 1, is_active |-> TRUE],
     [id |-> "8",  system_status_value |-> PCNF, mapped_area |-> "Production",
      sort_order |-> 2, is_active |-> TRUE],
     [id |-> "12", system_status_value |-> CLSD, mapped_area |-> "Logistics",
      sort_order |-> 3, is_active |-> FALSE] >>

\* Array.prototype.find: the first of the elements satisfying the test (hits,
\* in array order), or undefined
find(hits) ==
  IF Len(hits) = 0 THEN undefined ELSE hits[1]

mapArea(status) ==
  LET m == find(SelectSeq(MOCK_STATUS_MAPPINGS,
                     LAMBDA s : s.system_status_value = status))
  IN  IF m # undefined THEN m.mapped_area ELSE "Orders"

statusPool == {REL, GMPS, PCNF}

OrderIds == <<"ORD-100100">>

\* the i-th raw order with System_Status st
rawOrder(i, st) == [Order |-> OrderIds[i], System_Status |-> st]

\* MOCK_ORDERS for one choice of the orders' statuses
MOCK_ORDERS(sts) ==
  [i \in 1..Len(OrderIds) |->
     Spread(rawOrder(i, sts[i]), [current_area |-> mapArea(sts[i])])]

(***************************************************************************)
(* Effective status logic (api.ts)                                         *)
(***************************************************************************)
\* bestOf that lets every matching token replace the current best
RECURSIVE bestOfLatest(_, _, _, _)
bestOfLatest(tokens, mappings, i, best) ==
  IF i > Len(tokens) THEN best
  ELSE LET token == tokens[i]
           m == find(SelectSeq(mappings,
                       LAMBDA s : s.system_status_value = token /\ s.is_active))
       IN  IF m # undefined
           THEN bestOfLatest(tokens, mappings, i + 1, m)
           ELSE bestOfLatest(tokens, mappings, i + 1, best)

\* bestOf that lets a token of equal sort_order replace the current best
RECURSIVE bestOfNonStrict(_, _, _, _)
bestOfNonStrict(tokens, mappings, i, best) ==
  IF i > Len(tokens) THEN best
  ELSE LET token == tokens[i]
           m == find(SelectSeq(mappings,
                       LAMBDA s : s.system_status_value = token /\ s.is_active))
       IN  IF m # undefined /\ (best = undefined \/ m.sort_order >= best.sort_order)
           THEN bestOfNonStrict(tokens, mappings, i + 1, m)
           ELSE bestOfNonStrict(tokens, mappings, i + 1, best)

\* bestOf that matches inactive rows too
RECURSIVE bestOfAnyRow(_, _, _, _)
bestOfAnyRow(tokens, mappings, i, best) ==
  IF i > Len(tokens) THEN best
  ELSE LET token == tokens[i]
           m == find(SelectSeq(mappings,
                       LAMBDA s : s.system_status_value = token))
       IN  IF m # undefined /\ (best = undefined \/ m.sort_order > best.sort_order)
           THEN bestOfAnyRow(tokens, mappings, i + 1, m)
           ELSE bestOfAnyRow(tokens, mappings, i + 1, best)

\* the for-of loop of getEffectiveStatus from the i-th token on
RECURSIVE bestOf(_, _, _, _)
bestOf(tokens, mappings, i, best) ==
  IF i > Len(tokens) THEN best
  ELSE LET token == tokens[i]
           m == find(SelectSeq(mappings,
                       LAMBDA s : s.system_status_value = token /\ s.is_active))
       IN  IF m # undefined /\ (best = undefined \/ m.sort_order > best.sort_order)
           THEN bestOf(tokens, mappings, i + 1, m)
           ELSE bestOf(tokens, mappings, i + 1, best)

getEffectiveStatus(systemStatus, mappings) ==
  LET tokens == filterBoolean(split(trim(systemStatus), 1, <<>>))
  IN  bestOf(tokens, mappings, 1, undefined)

\* deriveArea that falls back to the area of the table's last row
deriveAreaLastRow(systemStatus, mappings) ==
  LET eff == getEffectiveStatus(systemStatus, mappings)
  IN  IF eff # undefined THEN eff.mapped_area
      ELSE IF Len(mappings) > 0 THEN mappings[Len(mappings)].mapped_area ELSE "Orders"

deriveArea(systemStatus, mappings) ==
  LET eff == getEffectiveStatus(systemStatus, mappings)
  IN  IF eff # undefined THEN eff.mapped_area ELSE "Orders"

(***************************************************************************)
(* Inputs of the operations.                                               *)
(***************************************************************************)
\* the mock table after an administrator's edit: GMPS remapped to
\* Production, PCNF deactivated
EDITED_STATUS_MAPPINGS ==
  [MOCK_STATUS_MAPPINGS EXCEPT
     ![2] = [@ EXCEPT !.mapped_area = "Production"],
     ![3] = [@ EXCEPT !.is_active = FALSE]]

MappingTables == {MOCK_STATUS_MAPPINGS, EDITED_STATUS_MAPPINGS, <<>>}

ok     == <<"o", "k">>
rework == <<" ", "r", "e", "w", "o", "r", "k">>

\* FlowMoveRequest (types.ts); justification is optional
KnownIds == {OrderIds[i] : i \in 1..Len(OrderIds)}
UnknownId == "ORD-000000"

FlowMoveRequest ==
  [order_id : KnownIds, target_area : Area]
    \cup [order_id : KnownIds, target_area : Area, justification : {ok, rework}]
    \cup [order_id : {UnknownId}, target_area : {"Production"}]

AreaModes ==
  {DEFAULT_AREA_MODES,
   [DEFAULT_AREA_MODES EXCEPT !.Production = "MANUAL"],
   [Warehouse |-> "MANUAL", Production |-> "MANUAL", Logistics |-> "MANUAL"]}

(***************************************************************************)
(* State after the module is loaded (api.ts 36-43).                        *)
(***************************************************************************)
InitApi ==
  /\ \E sts \in [1..Len(OrderIds) -> statusPool] : _orders = MOCK_ORDERS(sts)
  /\ _statusMappings = MOCK_STATUS_MAPPINGS
  /\ _moveAuditTrail = <<>>
  /\ localStorage = undefined
  /\ result = undefined

\* Array.prototype.filter on the order table by current_area
filterArea(a, area) == SelectSeq(a, LAMBDA o : o.current_area = area)

\* MOCK_PRODUCTION_STATUS: the i-th order that starts in Production
MOCK_PRODUCTION_STATUS(mockOrders) ==
  LET productionOrders == filterArea(mockOrders, "Production")
  IN  [id \in {productionOrders[i].Order : i \in 1..Len(productionOrders)} |->
         LET i == (CHOOSE k \in 1..Len(productionOrders) : productionOrders[k].Order = id) - 1
         IN  IF i % 3 = 0 THEN "IN_PROGRESS"
             ELSE IF i % 3 = 1 THEN "COMPLETED" ELSE "PENDING"]

\* the Production page before it is mounted (useState initial values)
InitPage ==
  /\ _productionStatus = MOCK_PRODUCTION_STATUS(_orders)
  /\ orders = <<>>
  /\ statuses = << >>
  /\ areaModes = DEFAULT_AREA_MODES
  /\ moveDialog = undefined
  /\ justification = <<>>

\* no pure function has been called on arguments of its own
InitCall ==
  /\ args = undefined
  /\ returned = undefined

\* MOCK_ISSUES: the issues of the first two Warehouse orders (an issue is
\* kept as its id, its order and its status)
MOCK_ISSUES(mockOrders) ==
  LET warehouseOrders == filterArea(mockOrders, "Warehouse")
      orderOf(k, fallback) ==
        IF k <= Len(warehouseOrders) THEN warehouseOrders[k].Order ELSE fallback
  IN  <<[id |-> "ISS-001", order_id |-> orderOf(1, "ORD-100103"), status |-> "OPEN"],
        [id |-> "ISS-002", order_id |-> orderOf(1, "ORD-100103"), status |-> "CLOSED"],
        [id |-> "ISS-003", order_id |-> orderOf(2, "ORD-100106"), status |-> "OPEN"]>>

\* the issue store, and the Warehouse page before it is mounted
InitWarehouse ==
  /\ _issues = MOCK_ISSUES(_orders)
  /\ selectedOrder = undefined
  /\ issues = <<>>
  /\ issueLoading = FALSE
  /\ pending = {}

Init == InitApi /\ InitPage /\ InitCall /\ InitWarehouse

\* findIndex that answers the last index for an order it does not find
findIndexLast(a, orderId, i) ==
  IF \E k \in i..Len(a) : a[k].Order = orderId
  THEN CHOOSE k \in i..Len(a) :
         a[k].Order = orderId /\ \A j \in i..(k - 1) : a[j].Order # orderId
  ELSE Len(a)

\* Array.prototype.findIndex on the order table, 1-based; 0 is JavaScript's -1
RECURSIVE findIndex(_, _, _)
findIndex(a, orderId, i) ==
  IF i > Len(a) THEN 0
  ELSE IF a[i].Order = orderId THEN i ELSE findIndex(a, orderId, i + 1)

(***************************************************************************)
(* updateStatusMappings (DEMO branch)                                      *)
(***************************************************************************)
\* recompute with the discrepancy taken without regard to the source
recomputeAnySource(o, mappings) ==
  LET sapArea == deriveArea(o.System_Status, mappings)
      isManual == Get(o, "source") = "manual"
  IN  Spread(o, [sap_area |-> sapArea,
                 discrepancy |-> sapArea # o.current_area,
                 current_area |-> IF isManual THEN o.current_area ELSE sapArea])

\* recompute that places a manual order like a system one
recomputeOverManual(o, mappings) ==
  LET sapArea == deriveArea(o.System_Status, mappings)
      isManual == Get(o, "source") = "manual"
  IN  Spread(o, [sap_area |-> sapArea,
                 discrepancy |-> isManual /\ sapArea # o.current_area,
                 current_area |-> sapArea])

\* recompute that hands an order back to the system once the areas agree
recomputeReleasing(o, mappings) ==
  LET sapArea == deriveArea(o.System_Status, mappings)
      isManual == Get(o, "source") = "manual"
      discrepancy == isManual /\ sapArea # o.current_area
  IN  Spread(o, [sap_area |-> sapArea,
                 discrepancy |-> discrepancy,
                 source |-> IF discrepancy THEN "manual" ELSE "system",
                 current_area |-> IF isManual THEN o.current_area ELSE sapArea])

\* recompute that refreshes sap_area only
recomputeSapOnly(o, mappings) ==
  LET sapArea == deriveArea(o.System_Status, mappings)
      isManual == Get(o, "source") = "manual"
  IN  Spread(o, [sap_area |-> sapArea,
                 discrepancy |-> isManual /\ sapArea # o.current_area])

\* recompute with the discrepancy taken against the sap_area cached on the order
recomputeCachedSapArea(o, mappings) ==
  LET sapArea == deriveArea(o.System_Status, mappings)
      isManual == Get(o, "source") = "manual"
  IN  Spread(o, [sap_area |-> sapArea,
                 discrepancy |-> isManual /\ Get(o, "sap_area") # o.current_area,
                 current_area |-> IF isManual THEN o.current_area ELSE sapArea])

\* the callback of _orders.map
recompute(o, mappings) ==
  LET sapArea == deriveArea(o.System_Status, mappings)
      isManual == Get(o, "source") = "manual"
      discrepancy == isManual /\ sapArea # o.current_area
  IN  Spread(o, [sap_area |-> sapArea,
                 discrepancy |-> discrepancy,
                 current_area |-> IF isManual THEN o.current_area ELSE sapArea])

\* updateStatusMappings that recomputes the first order of the table only
updateStatusMappingsFirstOnly(mappings) ==
  /\ _statusMappings' = mappings
  /\ _orders' = [i \in 1..Len(_orders) |->
                   IF i = 1 THEN recompute(_orders[i], mappings) ELSE _orders[i]]
  /\ UNCHANGED <<_moveAuditTrail, localStorage, result>>

\* updateStatusMappings that stores the table and leaves the orders alone
updateStatusMappingsTableOnly(mappings) ==
  /\ _statusMappings' = mappings
  /\ UNCHANGED <<_orders, _moveAuditTrail, localStorage, result>>

updateStatusMappings(mappings) ==
  /\ _statusMappings' = mappings
  /\ _orders' = [i \in 1..Len(_orders) |-> recompute(_orders[i], mappings)]
  /\ UNCHANGED <<_moveAuditTrail, localStorage, result>>

UpdateStatusMappings ==
  /\ \E mappings \in MappingTables : updateStatusMappings(mappings)
  /\ UNCHANGED <<pageVars, callVars, warehouseVars>>

(***************************************************************************)
(* saveAreaModes (DEMO branch)                                             *)
(***************************************************************************)
saveAreaModes(modes) ==
  /\ localStorage' = modes
  /\ UNCHANGED <<_orders, _statusMappings, _moveAuditTrail, result>>

SaveAreaModes ==
  /\ \E modes \in AreaModes : saveAreaModes(modes)
  /\ UNCHANGED <<pageVars, callVars, warehouseVars>>

(***************************************************************************)
(* moveOrder (DEMO branch)                                                 *)
(***************************************************************************)
\* the FlowMoveResult built at api.ts 264-271
FlowMoveResult(req, prev) ==
  [order_id |-> req.order_id,
   previous_area |-> prev.current_area,
   current_area |-> req.target_area,
   source |-> "manual"]

\* moved with the discrepancy taken against the area the order leaves
movedOldArea(o, targetArea, sapArea) ==
  Spread(o, [current_area |-> targetArea,
             source |-> "manual",
             sap_area |-> sapArea,
             discrepancy |-> sapArea # o.current_area])

\* the order written at api.ts 274-280
moved(o, targetArea, sapArea) ==
  Spread(o, [current_area |-> targetArea,
             source |-> "manual",
             sap_area |-> sapArea,
             discrepancy |-> sapArea # targetArea])

\* an audit entry that records the target area as the area left
auditEntryNoFrom(req, prev) ==
  Spread([order_id |-> req.order_id,
          from |-> req.target_area,
          to |-> req.target_area],
         [f \in DOMAIN req \cap {"justification"} |-> req[f]])

\* the audit entry appended at api.ts 285-292; a justification that the
\* request leaves undefined is absent from the entry
auditEntry(req, prev) ==
  Spread([order_id |-> req.order_id,
          from |-> prev.current_area,
          to |-> req.target_area],
         [f \in DOMAIN req \cap {"justification"} |-> req[f]])

\* a trail that keeps the latest entry only
overwriteAudit(trail, entry) == <<entry>>

\* [..._moveAuditTrail, entry]
appendAudit(trail, entry) == trail \o <<entry>>

\* moveOrder that takes the order out of the table and appends the moved one
moveOrderToEnd(req) ==
  LET idx == findIndex(_orders, req.order_id, 1)
  IN  IF idx = 0
      THEN /\ result' = [error |-> "Order not found"]
           /\ UNCHANGED <<_orders, _statusMappings, _moveAuditTrail, localStorage>>
      ELSE LET prev == _orders[idx]
               sapArea == deriveArea(prev.System_Status, _statusMappings)
               trail == appendAudit(_moveAuditTrail, auditEntry(req, prev))
           IN  /\ Len(trail) <= MaxAudit
               /\ result' = FlowMoveResult(req, prev)
               /\ _orders' = SelectSeq(_orders, LAMBDA o : o.Order # req.order_id)
                               \o <<moved(prev, req.target_area, sapArea)>>
               /\ _moveAuditTrail' = trail
               /\ UNCHANGED <<_statusMappings, localStorage>>

moveOrder(req) ==
  LET idx == findIndex(_orders, req.order_id, 1)
  IN  IF idx = 0
      THEN /\ result' = [error |-> "Order not found"]
           /\ UNCHANGED <<_orders, _statusMappings, _moveAuditTrail, localStorage>>
      ELSE LET prev == _orders[idx]
               sapArea == deriveArea(prev.System_Status, _statusMappings)
               trail == appendAudit(_moveAuditTrail, auditEntry(req, prev))
           IN  /\ Len(trail) <= MaxAudit
               /\ result' = FlowMoveResult(req, prev)
               /\ _orders' = [i \in 1..Len(_orders) |->
                                IF i = idx THEN moved(_orders[i], req.target_area, sapArea)
                                           ELSE _orders[i]]
               /\ _moveAuditTrail' = trail
               /\ UNCHANGED <<_statusMappings, localStorage>>

MoveOrder ==
  /\ \E req \in FlowMoveRequest : moveOrder(req)
  /\ UNCHANGED <<pageVars, callVars, warehouseVars>>

(***************************************************************************)
(* demoMoveOrder, markOrderReady, resetDemoState                           *)
(***************************************************************************)
demoMoveOrder(orderId, targetArea) ==
  LET idx == findIndex(_orders, orderId, 1)
  IN  IF idx = 0
      THEN UNCHANGED apiVars
      ELSE LET prev == _orders[idx]
               sapArea == deriveArea(prev.System_Status, _statusMappings)
               updated == moved(_orders[idx], targetArea, sapArea)
           IN  /\ _orders' = SubSeq(_orders, 1, idx - 1) \o <<updated>>
                               \o SubSeq(_orders, idx + 1, Len(_orders))
               /\ UNCHANGED <<_statusMappings, _moveAuditTrail, localStorage, result>>

DemoMoveOrder ==
  /\ \E orderId \in KnownIds \cup {UnknownId}, targetArea \in Area :
       demoMoveOrder(orderId, targetArea)
  /\ UNCHANGED <<pageVars, callVars, warehouseVars>>

markOrderReady(orderId) == demoMoveOrder(orderId, "Production")

MarkOrderReady ==
  /\ \E orderId \in KnownIds \cup {UnknownId} : markOrderReady(orderId)
  /\ UNCHANGED <<pageVars, callVars, warehouseVars>>

resetDemoState ==
  /\ \E sts \in [1..Len(OrderIds) -> statusPool] :
       /\ \A i \in 1..Len(OrderIds) : sts[i] = _orders[i].System_Status
       /\ _orders' = MOCK_ORDERS(sts)
  /\ _statusMappings' = MOCK_STATUS_MAPPINGS
  /\ _moveAuditTrail' = <<>>
  /\ UNCHANGED <<localStorage, result>>

ResetDemoState ==
  /\ resetDemoState
  /\ _issues' = MOCK_ISSUES(_orders')
  /\ UNCHANGED <<pageVars, callVars, selectedOrder, issues, issueLoading, pending>>

(***************************************************************************)
(* getAreaModes (DEMO branch)                                              *)
(***************************************************************************)
\* localStorage holds the document that JSON.parse gives for the text stored
\* under AREA_MODES_KEY (JSON.stringify followed by JSON.parse leaves a map
\* of strings as it is), undefined when nothing is stored, or UNPARSABLE when
\* the stored text is not JSON and JSON.parse throws
UNPARSABLE == [unparsable |-> TRUE]

\* getAreaModes that returns the stored document as it is
getAreaModesStoredOnly ==
  IF localStorage # undefined /\ localStorage # UNPARSABLE THEN localStorage
  ELSE DEFAULT_AREA_MODES

getAreaModes ==
  IF localStorage # undefined /\ localStorage # UNPARSABLE
  THEN Spread(DEFAULT_AREA_MODES, localStorage)
  ELSE DEFAULT_AREA_MODES

(***************************************************************************)
(* Production page (pages/Production.tsx) and its MoveOrderDialog          *)
(***************************************************************************)
pageIds == {orders[i].Order : i \in 1..Len(orders)}

\* load: fetch the Production orders, the area modes and each order's status
load ==
  LET productionOrders == filterArea(_orders, "Production")
  IN  /\ orders' = productionOrders
      /\ areaModes' = getAreaModes
      /\ statuses' = [id \in {productionOrders[i].Order : i \in 1..Len(productionOrders)} |->
                        IF id \in DOMAIN _productionStatus
                        THEN _productionStatus[id] ELSE "PENDING"]
      /\ UNCHANGED <<_productionStatus, moveDialog, justification>>

Load == load /\ UNCHANGED <<apiVars, callVars, warehouseVars>>

\* the status buttons of a row (Production.tsx 221-240) and handleStatusChange
handleStatusChange(orderId, newStatus) ==
  /\ _productionStatus' =
       [id \in DOMAIN _productionStatus \cup {orderId} |->
          IF id = orderId THEN newStatus ELSE _productionStatus[id]]
  /\ statuses' = [id \in DOMAIN statuses \cup {orderId} |->
                    IF id = orderId THEN newStatus ELSE statuses[id]]
  /\ UNCHANGED <<orders, areaModes, moveDialog, justification>>

HandleStatusChange ==
  /\ moveDialog = undefined
  /\ \E orderId \in pageIds :
       LET prodStatus == IF orderId \in DOMAIN statuses THEN statuses[orderId] ELSE Undefined
       IN  \/ /\ prodStatus # "IN_PROGRESS" /\ prodStatus # "COMPLETED"
              /\ handleStatusChange(orderId, "IN_PROGRESS")
           \/ /\ prodStatus = "IN_PROGRESS"
              /\ handleStatusChange(orderId, "COMPLETED")
  /\ UNCHANGED <<apiVars, callVars, warehouseVars>>

isManualMode == areaModes.Production = "MANUAL"

openNextStep(orderId) ==
  LET prodStatus == IF orderId \in DOMAIN statuses THEN statuses[orderId] ELSE Undefined
      isCompleted == prodStatus = "COMPLETED"
  IN  /\ moveDialog' = IF ~isCompleted
                       THEN [orderId |-> orderId, isNextStep |-> TRUE,
                             blockedReason |-> "Cannot move to Logistics"]
                       ELSE [orderId |-> orderId, isNextStep |-> TRUE]
      /\ justification' = <<>>
      /\ UNCHANGED <<_productionStatus, orders, statuses, areaModes>>

OpenNextStep ==
  /\ moveDialog = undefined
  /\ isManualMode
  /\ \E orderId \in pageIds : openNextStep(orderId)
  /\ UNCHANGED <<apiVars, callVars, warehouseVars>>

openMoveBack(orderId) ==
  /\ moveDialog' = [orderId |-> orderId, isNextStep |-> FALSE]
  /\ justification' = <<>>
  /\ UNCHANGED <<_productionStatus, orders, statuses, areaModes>>

OpenMoveBack ==
  /\ moveDialog = undefined
  /\ isManualMode
  /\ \E orderId \in pageIds : openMoveBack(orderId)
  /\ UNCHANGED <<apiVars, callVars, warehouseVars>>

\* MoveOrderDialog (components/MoveOrderDialog.tsx)
blockedReason == Get(moveDialog, "blockedReason")

requiresJustification == ~moveDialog.isNextStep

\* canConfirm that looks at the justification only
canConfirmUnblocked == ~requiresJustification \/ Len(trim(justification)) >= 5

canConfirm ==
  IF blockedReason # Undefined THEN FALSE
  ELSE ~requiresJustification \/ Len(trim(justification)) >= 5

JustificationTexts == {<<>>, ok, rework, <<" ", " ", " ", " ", " ">>}

\* typing into the textarea, which is rendered for an unblocked move back
SetJustification ==
  /\ moveDialog # undefined
  /\ blockedReason = Undefined /\ requiresJustification
  /\ \E text \in JustificationTexts : justification' = text
  /\ UNCHANGED <<_productionStatus, orders, statuses, areaModes, moveDialog>>
  /\ UNCHANGED <<apiVars, callVars, warehouseVars>>

onCancel ==
  /\ moveDialog' = undefined
  /\ justification' = <<>>
  /\ UNCHANGED <<_productionStatus, orders, statuses, areaModes>>

OnCancel == moveDialog # undefined /\ onCancel /\ UNCHANGED <<apiVars, callVars, warehouseVars>>

\* the page's onConfirm callback; j is the record of the arguments that
\* are not undefined
handleMoveConfirm(j) ==
  LET target == IF moveDialog.isNextStep THEN "Logistics" ELSE "Warehouse"
      req == Spread([order_id |-> moveDialog.orderId, target_area |-> target], j)
  IN  /\ moveOrder(req)
      /\ IF findIndex(_orders, req.order_id, 1) = 0
         THEN UNCHANGED <<orders, moveDialog, justification>>
         ELSE /\ orders' = SelectSeq(orders, LAMBDA o : o.Order # moveDialog.orderId)
              /\ moveDialog' = undefined
              /\ justification' = <<>>
      /\ UNCHANGED <<_productionStatus, statuses, areaModes>>

handleConfirm ==
  IF ~canConfirm THEN UNCHANGED <<apiVars, pageVars>>
  ELSE IF requiresJustification
       THEN handleMoveConfirm([justification |-> trim(justification)])
       ELSE handleMoveConfirm(<< >>)

HandleConfirm == moveDialog # undefined /\ handleConfirm /\ UNCHANGED <<callVars, warehouseVars>>

(***************************************************************************)
(* A two-order table under mapping saves and the Dashboard's moves         *)
(***************************************************************************)
TableIds == <<"ORD-100100", "ORD-100101">>

\* the first orders of MOCK_ORDERS, for one choice of their statuses
InitTable ==
  /\ \E sts \in [1..Len(TableIds) -> statusPool] :
       _orders = [i \in 1..Len(TableIds) |->
                    Spread([Order |-> TableIds[i], System_Status |-> sts[i]],
                           [current_area |-> mapArea(sts[i])])]
  /\ _statusMappings = MOCK_STATUS_MAPPINGS
  /\ _moveAuditTrail = <<>>
  /\ localStorage = undefined
  /\ result = undefined
  /\ InitPage
  /\ InitCall
  /\ InitWarehouse

\* Dashboard handleMove: the "Move to" buttons of an expanded order card
handleMove(orderId, area) == demoMoveOrder(orderId, area)

HandleMove ==
  /\ \E i \in 1..Len(_orders), area \in Area : handleMove(_orders[i].Order, area)
  /\ UNCHANGED <<pageVars, callVars, warehouseVars>>

NextTable ==
  \/ UpdateStatusMappings
  \/ HandleMove

SpecTable == InitTable /\ [][NextTable]_vars

(***************************************************************************)
(* getEffectiveStatus and deriveArea applied to arguments of their own      *)
(***************************************************************************)
PRT == <<"P", "R", "T">>
rel == <<"r", "e", "l">>

TokenPool == {REL, GMPS, PCNF, CLSD, PRT, rel}

\* the tokens separated by single spaces
RECURSIVE join(_)
join(tokens) ==
  IF Len(tokens) = 0 THEN <<>>
  ELSE IF Len(tokens) = 1 THEN tokens[1]
  ELSE tokens[1] \o <<" ">> \o join(Tail(tokens))

\* status strings with leading, trailing and repeated whitespace
WhitespaceStrings ==
  { <<" ", " ", " ">>,
    <<" ">> \o REL \o <<" ", " ">> \o PCNF \o <<" ">>,
    PCNF \o <<"\t">> \o REL,
    <<"\t", " ">> \o GMPS \o <<" ", "\t", " ">> \o PRT }

StatusStrings ==
  {join(tokens) : tokens \in UNION {[1..n -> TokenPool] : n \in 0..MaxTokens}}
    \cup WhitespaceStrings

\* a table with the sort orders REL = 2 and PCNF = 8
RANKED_STATUS_MAPPINGS ==
  << [id |-> "2", system_status_value |-> REL,  mapped_area |-> "Orders",
      sort_order |-> 2, is_active |-> TRUE],
     [id |-> "8", system_status_value |-> PCNF, mapped_area |-> "Production",
      sort_order |-> 8, is_active |-> TRUE] >>

\* the mock table with a second active row for REL
DUPLICATE_STATUS_MAPPINGS ==
  Append(MOCK_STATUS_MAPPINGS,
         [id |-> "13", system_status_value |-> REL, mapped_area |-> "Logistics",
          sort_order |-> 5, is_active |-> TRUE])

StatusMappingInputs ==
  MappingTables \cup {RANKED_STATUS_MAPPINGS, DUPLICATE_STATUS_MAPPINGS}

InitStatus ==
  /\ InitApi
  /\ InitPage
  /\ InitWarehouse
  /\ args \in [systemStatus : StatusStrings, mappings : StatusMappingInputs]
  /\ returned = undefined

GetEffectiveStatus ==
  /\ returned' = [eff |-> getEffectiveStatus(args.systemStatus, args.mappings)]
  /\ UNCHANGED <<args, apiVars, pageVars, warehouseVars>>

DeriveArea ==
  /\ returned' = [area |-> deriveArea(args.systemStatus, args.mappings)]
  /\ UNCHANGED <<args, apiVars, pageVars, warehouseVars>>

NextStatus ==
  \/ GetEffectiveStatus
  \/ DeriveArea

SpecStatus == InitStatus /\ [][NextStatus]_vars

(***************************************************************************)
(* computeFlowErrors applied to arguments of its own                        *)
(***************************************************************************)
\* the UTF-16 code unit of a character of a date string
codeUnit(c) ==
  CASE c = "-" -> 45
    [] c = "0" -> 48 [] c = "1" -> 49 [] c = "2" -> 50 [] c = "3" -> 51
    [] c = "4" -> 52 [] c = "5" -> 53 [] c = "6" -> 54 [] c = "7" -> 55
    [] c = "8" -> 56 [] c = "9" -> 57

\* a > b on strings: the first differing code unit decides, and a proper
\* prefix is the smaller string
RECURSIVE stringGreater(_, _)
stringGreater(a, b) ==
  IF Len(a) = 0 THEN FALSE
  ELSE IF Len(b) = 0 THEN TRUE
  ELSE IF Head(a) = Head(b) THEN stringGreater(Tail(a), Tail(b))
  ELSE codeUnit(Head(a)) > codeUnit(Head(b))

\* the errors pushed for one order by the first loop, with the two quantity
\* rules folded into one check
flowErrorsOfOneQuantityRule(o, mappings) ==
  LET sapArea == IF "sap_area" \in DOMAIN o THEN o.sap_area
                 ELSE deriveArea(o.System_Status, mappings)
      e1 ==
        IF Get(o, "source") = "manual" /\ sapArea # o.current_area
        THEN << [order_id |-> o.Order, Order |-> o.Order, category |-> "E1_DISCREPANCY",
                 description |-> [text |-> "Manually placed, but SAP mapping says",
                                  current_area |-> o.current_area, sapArea |-> sapArea],
                 current_area |-> o.current_area,
                 sap_area |-> sapArea,
                 system_status |-> o.System_Status] >>
        ELSE <<>>
      start == o.Start_date_sched
      finish == o.Scheduled_finish_date
      e4Dates ==
        IF Len(start) > 0 /\ Len(finish) > 0 /\ stringGreater(start, finish)
        THEN << [order_id |-> o.Order, Order |-> o.Order, category |-> "E4_INVALID",
                 description |-> [text |-> "Finish date is before start date",
                                  finish |-> finish, start |-> start],
                 system_status |-> o.System_Status] >>
        ELSE <<>>
      e4Quantity ==
        IF o.Order_quantity <= 0 \/ o.Delivered_quantity > o.Order_quantity
        THEN << [order_id |-> o.Order, Order |-> o.Order, category |-> "E4_INVALID",
                 description |-> [text |-> "Order quantity must be > 0",
                                  Order_quantity |-> o.Order_quantity],
                 system_status |-> o.System_Status] >>
        ELSE <<>>
  IN  e1 \o e4Dates \o e4Quantity

\* the errors pushed for one order by the first loop (api.ts 365-419)
flowErrorsOf(o, mappings) ==
  LET sapArea == IF "sap_area" \in DOMAIN o THEN o.sap_area
                 ELSE deriveArea(o.System_Status, mappings)
      e1 ==
        IF Get(o, "source") = "manual" /\ sapArea # o.current_area
        THEN << [order_id |-> o.Order, Order |-> o.Order, category |-> "E1_DISCREPANCY",
                 description |-> [text |-> "Manually placed, but SAP mapping says",
                                  current_area |-> o.current_area, sapArea |-> sapArea],
                 current_area |-> o.current_area,
                 sap_area |-> sapArea,
                 system_status |-> o.System_Status] >>
        ELSE <<>>
      start == o.Start_date_sched
      finish == o.Scheduled_finish_date
      e4Dates ==
        IF Len(start) > 0 /\ Len(finish) > 0 /\ stringGreater(start, finish)
        THEN << [order_id |-> o.Order, Order |-> o.Order, category |-> "E4_INVALID",
                 description |-> [text |-> "Finish date is before start date",
                                  finish |-> finish, start |-> start],
                 system_status |-> o.System_Status] >>
        ELSE <<>>
      e4Quantity ==
        IF o.Order_quantity <= 0
        THEN << [order_id |-> o.Order, Order |-> o.Order, category |-> "E4_INVALID",
                 description |-> [text |-> "Order quantity must be > 0",
                                  Order_quantity |-> o.Order_quantity],
                 system_status |-> o.System_Status] >>
        ELSE <<>>
      e4Delivered ==
        IF o.Delivered_quantity > o.Order_quantity
        THEN << [order_id |-> o.Order, Order |-> o.Order, category |-> "E4_INVALID",
                 description |-> [text |-> "Delivered quantity exceeds ordered quantity",
                                  Delivered_quantity |-> o.Delivered_quantity,
                                  Order_quantity |-> o.Order_quantity],
                 system_status |-> o.System_Status] >>
        ELSE <<>>
  IN  e1 \o e4Dates \o e4Quantity \o e4Delivered

\* Array.prototype.includes
includes(a, x) == \E i \in 1..Len(a) : a[i] = x

\* the E2 check that looks at changed_fields only
statusRegressedAnyFlag(o) ==
  "changed_fields" \in DOMAIN o /\ includes(o.changed_fields, "System_Status")

\* o.has_changes && o.changed_fields?.includes('System_Status')
statusRegressed(o) ==
  /\ Truthy(o, "has_changes")
  /\ "changed_fields" \in DOMAIN o /\ includes(o.changed_fields, "System_Status")

\* a second loop body that also reports an order whose change flag comes
\* without a field list as missing
regressErrorsOfOrMissing(o) ==
  IF statusRegressed(o)
  THEN << [order_id |-> o.Order, Order |-> o.Order, category |-> "E2_REGRESS",
           description |-> [text |-> "System status changed in latest upload"],
           system_status |-> o.System_Status] >>
  ELSE IF Truthy(o, "has_changes") /\ "changed_fields" \notin DOMAIN o
  THEN << [order_id |-> o.Order, Order |-> o.Order, category |-> "E3_MISSING",
           description |-> [text |-> "Missing from latest upload"],
           system_status |-> o.System_Status] >>
  ELSE <<>>

\* the error pushed for one order by the second loop (api.ts 423-435)
regressErrorsOf(o) ==
  IF statusRegressed(o)
  THEN << [order_id |-> o.Order, Order |-> o.Order, category |-> "E2_REGRESS",
           description |-> [text |-> "System status changed in latest upload"],
           system_status |-> o.System_Status] >>
  ELSE <<>>

\* the first for-of loop from the i-th order on
RECURSIVE firstLoop(_, _, _)
firstLoop(orderList, mappings, i) ==
  IF i > Len(orderList) THEN <<>>
  ELSE flowErrorsOf(orderList[i], mappings) \o firstLoop(orderList, mappings, i + 1)

\* the second for-of loop from the i-th order on
RECURSIVE secondLoop(_, _)
secondLoop(orderList, i) ==
  IF i > Len(orderList) THEN <<>>
  ELSE regressErrorsOf(orderList[i]) \o secondLoop(orderList, i + 1)

computeFlowErrors(orderList, mappings) ==
  firstLoop(orderList, mappings, 1) \o secondLoop(orderList, 1)

\* ISO dates, and the empty string of an order without a date
Jan09 == <<"2", "0", "2", "6", "-", "0", "1", "-", "0", "9">>
Jan10 == <<"2", "0", "2", "6", "-", "0", "1", "-", "1", "0">>
Dec31 == <<"2", "0", "2", "5", "-", "1", "2", "-", "3", "1">>

\* the fields of an Order that the E1 check reads
PlacementInputs ==
  UNION { [Order : {TableIds[1]}, System_Status : {GMPS},
           current_area : {"Warehouse", "Production"}],
          [Order : {TableIds[1]}, System_Status : {GMPS},
           current_area : {"Warehouse", "Production"}, source : {"manual", "system"}],
          [Order : {TableIds[1]}, System_Status : {GMPS},
           current_area : {"Warehouse", "Production"}, source : {"manual", "system"},
           sap_area : {"Warehouse", "Production"}] }

\* the fields of an Order that the E4 checks read
ValidityInputs ==
  [Start_date_sched : {Jan10, Dec31, <<>>},
   Scheduled_finish_date : {Jan09, <<>>},
   Order_quantity : {100, 0, -5},
   Delivered_quantity : {0, 150}]

\* the fields of an Order that the E2 check reads
ChangeInputs ==
  UNION { {<< >>},
          [has_changes : BOOLEAN],
          [changed_fields : {<<"System_Status">>}],
          [has_changes : BOOLEAN,
           changed_fields : {<<>>, <<"System_Status">>,
                             <<"Order_quantity", "System_Status", "System_Status">>}] }

OrderInputs ==
  {Spread(Spread(p, v), c) : p \in PlacementInputs, v \in ValidityInputs, c \in ChangeInputs}

\* a second order of the list, in discrepancy and invalid in every respect
SECOND_ORDER ==
  [Order |-> TableIds[2], System_Status |-> PCNF, current_area |-> "Logistics",
   source |-> "manual", Start_date_sched |-> Jan10, Scheduled_finish_date |-> Jan09,
   Order_quantity |-> 0, Delivered_quantity |-> 150,
   has_changes |-> TRUE, changed_fields |-> <<"System_Status">>]

OrderListInputs ==
  {<<>>} \cup {<<o>> : o \in OrderInputs} \cup {<<o, SECOND_ORDER>> : o \in OrderInputs}
    \cup {<<SECOND_ORDER, o>> : o \in OrderInputs}

InitFlowErrors ==
  /\ InitApi
  /\ InitPage
  /\ InitWarehouse
  /\ args \in [orders : OrderListInputs, mappings : MappingTables]
  /\ returned = undefined

\* a computeFlowErrors that writes the SAP area it used back into the orders
ComputeFlowErrorsCaching ==
  /\ returned' = [errors |-> computeFlowErrors(args.orders, args.mappings)]
  /\ args' = [args EXCEPT !.orders =
                [i \in 1..Len(args.orders) |->
                   Spread(args.orders[i],
                          [sap_area |-> deriveArea(args.orders[i].System_Status,
                                                   args.mappings)])]]
  /\ UNCHANGED <<apiVars, pageVars, warehouseVars>>

ComputeFlowErrors ==
  /\ returned' = [errors |-> computeFlowErrors(args.orders, args.mappings)]
  /\ UNCHANGED <<args, apiVars, pageVars, warehouseVars>>

NextFlowErrors == ComputeFlowErrors

SpecFlowErrors == InitFlowErrors /\ [][NextFlowErrors]_vars

(***************************************************************************)
(* The area modes document under saveAreaModes and getAreaModes             *)
(***************************************************************************)
\* every map of the three areas, maps that lack a key, and a map with the
\* extra key Orders
AreaModesInputs ==
  [{"Warehouse", "Production", "Logistics"} -> {"AUTO", "MANUAL"}]
    \cup [{"Warehouse"} -> {"AUTO", "MANUAL"}]
    \cup [{"Production", "Logistics"} -> {"MANUAL"}]
    \cup {<< >>}
    \cup {[Orders |-> "MANUAL", Warehouse |-> "AUTO", Production |-> "MANUAL",
           Logistics |-> "AUTO"]}

SaveAreaModesInput ==
  /\ \E modes \in AreaModesInputs : saveAreaModes(modes)
  /\ UNCHANGED <<pageVars, callVars, warehouseVars>>

GetAreaModes ==
  /\ returned' = [modes |-> getAreaModes]
  /\ UNCHANGED <<args, apiVars, pageVars, warehouseVars>>

\* the text stored under AREA_MODES_KEY is overwritten from outside the
\* module with text that is not JSON
StorageOverwritten ==
  /\ localStorage' = UNPARSABLE
  /\ UNCHANGED <<_orders, _statusMappings, _moveAuditTrail, result>>
  /\ UNCHANGED <<pageVars, callVars, warehouseVars>>

NextModes ==
  \/ SaveAreaModesInput
  \/ GetAreaModes
  \/ StorageOverwritten

SpecModes == Init /\ [][NextModes]_vars

(***************************************************************************)
(* updateStatusMappings and moveOrder statement by statement: args is the  *)
(* frame of the call that is between two of its statements                 *)
(***************************************************************************)
\* an event loop that hands control to another task at any statement
betweenTasksPreemptive == TRUE

\* the DEMO branches contain no await: another task (a reader, a second
\* mutation) runs only when no call is between two of its statements
betweenTasks == args = undefined

\* getOrders() without filters: [..._orders]
getOrders == _orders

\* getStatusMappings(): [..._statusMappings]
getStatusMappings == _statusMappings

\* updateStatusMappings, api.ts 189: _statusMappings = mappings
AssignStatusMappings ==
  /\ betweenTasks
  /\ \E mappings \in MappingTables :
       /\ _statusMappings' = mappings
       /\ args' = [call |-> "updateStatusMappings", line |-> 191]
  /\ UNCHANGED <<_orders, _moveAuditTrail, localStorage, result, pageVars, returned, warehouseVars>>

\* updateStatusMappings, api.ts 191-202: _orders = _orders.map(...)
MapOrders ==
  /\ Get(args, "call") = "updateStatusMappings"
  /\ _orders' = [i \in 1..Len(_orders) |-> recompute(_orders[i], _statusMappings)]
  /\ args' = undefined
  /\ UNCHANGED <<_statusMappings, _moveAuditTrail, localStorage, result, pageVars, returned, warehouseVars>>

\* moveOrder, api.ts 259-282: the lookup, the locals and _orders = _orders.map(...)
WriteMovedOrder ==
  /\ betweenTasks
  /\ \E req \in FlowMoveRequest :
       LET idx == findIndex(_orders, req.order_id, 1)
       IN  IF idx = 0
           THEN /\ result' = [error |-> "Order not found"]
                /\ UNCHANGED <<_orders, args>>
           ELSE LET prev == _orders[idx]
                    sapArea == deriveArea(prev.System_Status, _statusMappings)
                IN  /\ Len(_moveAuditTrail) < MaxAudit
                    /\ _orders' = [i \in 1..Len(_orders) |->
                                     IF i = idx THEN moved(_orders[i], req.target_area, sapArea)
                                                ELSE _orders[i]]
                    /\ args' = [call |-> "moveOrder", line |-> 283,
                                req |-> req, prev |-> prev]
                    /\ UNCHANGED result
  /\ UNCHANGED <<_statusMappings, _moveAuditTrail, localStorage, pageVars, returned, warehouseVars>>

\* moveOrder, api.ts 283-294: the audit entry and the returned result
AppendAuditEntry ==
  /\ Get(args, "call") = "moveOrder"
  /\ _moveAuditTrail' = appendAudit(_moveAuditTrail, auditEntry(args.req, args.prev))
  /\ result' = FlowMoveResult(args.req, args.prev)
  /\ args' = undefined
  /\ UNCHANGED <<_orders, _statusMappings, localStorage, pageVars, returned, warehouseVars>>

NextSteps ==
  \/ AssignStatusMappings
  \/ MapOrders
  \/ WriteMovedOrder
  \/ AppendAuditEntry

SpecSteps == InitTable /\ [][NextSteps]_vars

(***************************************************************************)
(* Warehouse page: every await is a point where the handler yields; the    *)
(* call it awaits is a frame of pending until its continuation runs         *)
(***************************************************************************)
MaxPending == 2
MaxIssues == 4

\* the mock order in Warehouse with its mock issues, the area modes stored
\* or not
InitWarehousePage ==
  /\ _orders = MOCK_ORDERS([i \in 1..Len(OrderIds) |-> GMPS])
  /\ _statusMappings = MOCK_STATUS_MAPPINGS
  /\ _moveAuditTrail = <<>>
  /\ localStorage \in {undefined, [Warehouse |-> "MANUAL", Production |-> "AUTO",
                                   Logistics |-> "AUTO"]}
  /\ result = undefined
  /\ InitPage
  /\ InitCall
  /\ InitWarehouse

\* getIssues (DEMO branch)
getIssues(orderId) == SelectSeq(_issues, LAMBDA i : i.order_id = orderId)

\* the issue createIssue appends; ISS-${Date.now()} is a fresh id
newIssue(orderId) ==
  [id |-> IF Len(_issues) = 3 THEN "ISS-NEW-1" ELSE "ISS-NEW-2",
   order_id |-> orderId, status |-> "OPEN"]

\* the issue patchIssue writes: {..._issues[idx], ...data}
patched(issueId, data) ==
  LET idx == CHOOSE k \in 1..Len(_issues) : _issues[k].id = issueId
  IN  Spread(_issues[idx], data)

openIssues == SelectSeq(issues, LAMBDA i : i.status = "OPEN")

canMarkReady == Len(openIssues) = 0

markingReady == \E f \in pending : f.call = "handleMarkReady"

submitting == \E f \in pending : f.call = "handleMoveConfirm"

loading == \E f \in pending : f.call = "load"

Warehouse_isManualMode == areaModes.Warehouse = "MANUAL"

\* load up to its await: the three calls of Promise.all
WarehouseLoad ==
  /\ moveDialog = undefined
  /\ Cardinality(pending) < MaxPending
  /\ pending' = pending \cup {[call |-> "load",
                               o |-> filterArea(_orders, "Warehouse"),
                               modes |-> getAreaModes]}
  /\ UNCHANGED <<apiVars, pageVars, callVars, _issues, selectedOrder, issues, issueLoading>>

\* load after its await
WarehouseLoaded ==
  \E f \in pending :
    /\ f.call = "load"
    /\ orders' = f.o
    /\ areaModes' = f.modes
    /\ pending' = pending \ {f}
    /\ UNCHANGED <<apiVars, callVars, _productionStatus, statuses, moveDialog, justification,
                   _issues, selectedOrder, issues, issueLoading>>

\* selectOrder, and loadIssues up to its await
SelectOrder ==
  /\ moveDialog = undefined
  /\ ~loading
  /\ Cardinality(pending) < MaxPending
  /\ \E k \in 1..Len(orders) :
       /\ selectedOrder' = orders[k]
       /\ issueLoading' = TRUE
       /\ pending' = pending \cup {[call |-> "loadIssues",
                                    result |-> getIssues(orders[k].Order)]}
  /\ UNCHANGED <<apiVars, pageVars, callVars, _issues, issues>>

\* loadIssues after its await
IssuesLoaded ==
  \E f \in pending :
    /\ f.call = "loadIssues"
    /\ issues' = f.result
    /\ issueLoading' = FALSE
    /\ pending' = pending \ {f}
    /\ UNCHANGED <<apiVars, pageVars, callVars, _issues, selectedOrder>>

\* handleAddIssue up to its await: createIssue
HandleAddIssue ==
  /\ moveDialog = undefined
  /\ selectedOrder # undefined
  /\ ~\E f \in pending : f.call = "handleAddIssue"
  /\ Cardinality(pending) < MaxPending
  /\ Len(_issues) < MaxIssues
  /\ LET created == newIssue(selectedOrder.Order)
     IN  /\ _issues' = _issues \o <<created>>
         /\ pending' = pending \cup {[call |-> "handleAddIssue", created |-> created]}
  /\ UNCHANGED <<apiVars, pageVars, callVars, selectedOrder, issues, issueLoading>>

\* handleAddIssue after its await
IssueAdded ==
  \E f \in pending :
    /\ f.call = "handleAddIssue"
    /\ issues' = issues \o <<f.created>>
    /\ pending' = pending \ {f}
    /\ UNCHANGED <<apiVars, pageVars, callVars, _issues, selectedOrder, issueLoading>>

\* handleToggleIssue up to its await: patchIssue
HandleToggleIssue ==
  /\ moveDialog = undefined
  /\ selectedOrder # undefined
  /\ ~issueLoading
  /\ Cardinality(pending) < MaxPending
  /\ \E k \in 1..Len(issues) :
       LET issue == issues[k]
           updated == patched(issue.id,
                              [status |-> IF issue.status = "OPEN" THEN "CLOSED" ELSE "OPEN"])
       IN  /\ _issues' = [j \in 1..Len(_issues) |->
                            IF _issues[j].id = issue.id THEN updated ELSE _issues[j]]
           /\ pending' = pending \cup {[call |-> "handleToggleIssue", updated |-> updated]}
  /\ UNCHANGED <<apiVars, pageVars, callVars, selectedOrder, issues, issueLoading>>

\* handleToggleIssue after its await
IssueToggled ==
  \E f \in pending :
    /\ f.call = "handleToggleIssue"
    /\ issues' = [j \in 1..Len(issues) |->
                    IF issues[j].id = f.updated.id THEN f.updated ELSE issues[j]]
    /\ pending' = pending \ {f}
    /\ UNCHANGED <<apiVars, pageVars, callVars, _issues, selectedOrder, issueLoading>>

\* the Mark Ready button (AUTO mode) and handleMarkReady up to its await
HandleMarkReady ==
  /\ moveDialog = undefined
  /\ selectedOrder # undefined
  /\ ~Warehouse_isManualMode
  /\ canMarkReady /\ ~markingReady /\ Len(openIssues) = 0
  /\ Cardinality(pending) < MaxPending
  /\ markOrderReady(selectedOrder.Order)
  /\ pending' = pending \cup {[call |-> "handleMarkReady", orderId |-> selectedOrder.Order]}
  /\ UNCHANGED <<pageVars, callVars, _issues, selectedOrder, issues, issueLoading>>

\* handleMarkReady after its await
MarkedReady ==
  \E f \in pending :
    /\ f.call = "handleMarkReady"
    /\ orders' = SelectSeq(orders, LAMBDA o : o.Order # f.orderId)
    /\ selectedOrder' = undefined
    /\ pending' = pending \ {f}
    /\ UNCHANGED <<apiVars, callVars, _productionStatus, statuses, areaModes, moveDialog,
                   justification, _issues, issues, issueLoading>>

\* the Next Step button (MANUAL mode)
Warehouse_openNextStep ==
  LET openCount == Len(openIssues)
  IN  /\ moveDialog' = IF openCount > 0
                       THEN [orderId |-> selectedOrder.Order, isNextStep |-> TRUE,
                             blockedReason |-> "Cannot move to Production"]
                       ELSE [orderId |-> selectedOrder.Order, isNextStep |-> TRUE]
      /\ justification' = <<>>
      /\ UNCHANGED <<_productionStatus, orders, statuses, areaModes>>

WarehouseOpenNextStep ==
  /\ moveDialog = undefined
  /\ selectedOrder # undefined
  /\ Warehouse_isManualMode
  /\ Warehouse_openNextStep
  /\ UNCHANGED <<apiVars, callVars, warehouseVars>>

\* the Move Back button (MANUAL mode)
Warehouse_openMoveBack ==
  /\ moveDialog' = [orderId |-> selectedOrder.Order, isNextStep |-> FALSE]
  /\ justification' = <<>>
  /\ UNCHANGED <<_productionStatus, orders, statuses, areaModes>>

WarehouseOpenMoveBack ==
  /\ moveDialog = undefined
  /\ selectedOrder # undefined
  /\ Warehouse_isManualMode
  /\ Warehouse_openMoveBack
  /\ UNCHANGED <<apiVars, callVars, warehouseVars>>

\* the dialog's Confirm button, and handleMoveConfirm up to its await
WarehouseConfirm ==
  /\ moveDialog # undefined /\ selectedOrder # undefined
  /\ canConfirm /\ ~submitting
  /\ Cardinality(pending) < MaxPending
  /\ LET target == IF moveDialog.isNextStep THEN "Production" ELSE "Orders"
         j == IF requiresJustification THEN [justification |-> trim(justification)]
              ELSE << >>
     IN  moveOrder(Spread([order_id |-> moveDialog.orderId, target_area |-> target], j))
  /\ pending' = pending \cup {[call |-> "handleMoveConfirm", orderId |-> moveDialog.orderId]}
  /\ UNCHANGED <<pageVars, callVars, _issues, selectedOrder, issues, issueLoading>>

\* handleMoveConfirm after its await
MoveConfirmed ==
  \E f \in pending :
    /\ f.call = "handleMoveConfirm"
    /\ orders' = SelectSeq(orders, LAMBDA o : o.Order # f.orderId)
    /\ selectedOrder' = undefined
    /\ moveDialog' = undefined
    /\ justification' = <<>>
    /\ pending' = pending \ {f}
    /\ UNCHANGED <<apiVars, callVars, _productionStatus, statuses, areaModes,
                   _issues, issues, issueLoading>>

NextWarehouse ==
  \/ WarehouseLoad
  \/ WarehouseLoaded
  \/ SelectOrder
  \/ IssuesLoaded
  \/ HandleAddIssue
  \/ IssueAdded
  \/ HandleToggleIssue
  \/ IssueToggled
  \/ HandleMarkReady
  \/ MarkedReady
  \/ WarehouseOpenNextStep
  \/ WarehouseOpenMoveBack
  \/ SetJustification
  \/ OnCancel
  \/ WarehouseConfirm
  \/ MoveConfirmed

SpecWarehouse == InitWarehousePage /\ [][NextWarehouse]_vars

(***************************************************************************)
(* moveOrder and updateStatusMappings as functions of the order table, and *)
(* the two orders in which a move and a mapping save can be applied         *)
(***************************************************************************)
\* the table moveOrder writes at api.ts 272-282; a request for an order
\* that is not found throws and leaves the table
moveOrderTable(orderList, mappings, req) ==
  LET idx == findIndex(orderList, req.order_id, 1)
  IN  IF idx = 0 THEN orderList
      ELSE LET sapArea == deriveArea(orderList[idx].System_Status, mappings)
           IN  [i \in 1..Len(orderList) |->
                  IF i = idx THEN moved(orderList[i], req.target_area, sapArea)
                             ELSE orderList[i]]

\* a mapping pass that leaves the manually placed orders as they are
updateStatusMappingsTableSkipManual(orderList, mappings) ==
  [i \in 1..Len(orderList) |->
     IF Get(orderList[i], "source") = "manual" THEN orderList[i]
     ELSE recompute(orderList[i], mappings)]

\* the table updateStatusMappings writes at api.ts 191-202
updateStatusMappingsTable(orderList, mappings) ==
  [i \in 1..Len(orderList) |-> recompute(orderList[i], mappings)]

\* requests for the orders of the table and for an order that is not there
TableMoveRequest ==
  [order_id : {TableIds[i] : i \in 1..Len(TableIds)} \cup {UnknownId}, target_area : Area]

\* both orders of moveOrder(req) and updateStatusMappings(mappings), each
\* started from the current table
MoveAndApply ==
  /\ \E req \in TableMoveRequest, mappings \in MappingTables :
       returned' =
         [moveThenApply |->
            updateStatusMappingsTable(moveOrderTable(_orders, _statusMappings, req), mappings),
          applyThenMove |->
            moveOrderTable(updateStatusMappingsTable(_orders, mappings), mappings, req)]
  /\ UNCHANGED <<args, apiVars, pageVars, warehouseVars>>

NextCommute ==
  \/ UpdateStatusMappings
  \/ HandleMove
  \/ MoveAndApply

SpecCommute == InitTable /\ [][NextCommute]_vars

(***************************************************************************)
(* A two-order table under moveOrder, mapping saves and area-mode saves    *)
(***************************************************************************)
NextMoves ==
  \/ UpdateStatusMappings
  \/ SaveAreaModes
  \/ MoveOrder

SpecMoves == InitTable /\ [][NextMoves]_vars

Next ==
  \/ UpdateStatusMappings
  \/ SaveAreaModes
  \/ MoveOrder
  \/ DemoMoveOrder
  \/ MarkOrderReady
  \/ ResetDemoState

Spec == Init /\ [][Next]_vars

\* the Production page on top of the API state
NextPage ==
  \/ SaveAreaModes
  \/ UpdateStatusMappings
  \/ MarkOrderReady
  \/ Load
  \/ HandleStatusChange
  \/ OpenNextStep
  \/ OpenMoveBack
  \/ SetJustification
  \/ OnCancel
  \/ HandleConfirm

SpecPage == Init /\ [][NextPage]_vars

(***************************************************************************)
(* Properties                                                              *)
(***************************************************************************)

\* C1: in every reachable state the discrepancy flag of every order is raised
\* exactly when the order is manual and its sap_area differs from its
\* current_area (a flag that was never assigned reads as false).
C1_DiscrepancyInvariant ==
  \A i \in 1..Len(_orders) :
    LET o == _orders[i]
    IN  Truthy(o, "discrepancy")
          <=> (Get(o, "source") = "manual" /\ Get(o, "sap_area") # o.current_area)

C1_Witness ==
  \E i \in 1..Len(_orders) :
    /\ Truthy(_orders[i], "discrepancy")
    /\ _orders[i].source = "manual"
    /\ _statusMappings # MOCK_STATUS_MAPPINGS

\* C2: an updateStatusMappings(M) step leaves the current_area of every
\* manually placed order where the move put it, and sets the order's sap_area
\* to deriveArea(raw status, M) and its discrepancy to (that area differs
\* from current_area).
C2_StickyManualPlacement ==
  [][\A mappings \in MappingTables :
       updateStatusMappings(mappings) =>
         \A i \in 1..Len(_orders) :
           Get(_orders[i], "source") = "manual" =>
             LET sapArea == deriveArea(_orders[i].System_Status, mappings)
             IN  /\ _orders'[i].current_area = _orders[i].current_area
                 /\ _orders'[i].source = "manual"
                 /\ _orders'[i].sap_area = sapArea
                 /\ _orders'[i].discrepancy = (sapArea # _orders[i].current_area)]_vars

\* a GMPS order moved Warehouse -> Production by moveOrder, seen after an
\* apply whose derived area is Warehouse again
C2_Witness ==
  /\ _statusMappings = MOCK_STATUS_MAPPINGS
  /\ "error" \notin DOMAIN result /\ result # undefined
  /\ result.previous_area = "Warehouse" /\ result.current_area = "Production"
  /\ \E i \in 1..Len(_orders) :
       /\ _orders[i].Order = result.order_id
       /\ _orders[i].System_Status = GMPS
       /\ _orders[i].current_area = "Production"
       /\ Get(_orders[i], "sap_area") = "Warehouse"
       /\ Truthy(_orders[i], "discrepancy")
  /\ localStorage # undefined

\* C3 (as claimed): no operation ever takes an order's source from manual
\* back to system.
C3_ManualForever ==
  [][\A i \in 1..Len(_orders) :
       Get(_orders[i], "source") = "manual" => Get(_orders'[i], "source") = "manual"]_vars

\* C3 (amended): no operation other than resetDemoState takes an order's
\* source from manual back to system.
C3_ManualUntilReset ==
  [][resetDemoState
       \/ \A i \in 1..Len(_orders) :
            Get(_orders[i], "source") = "manual" => Get(_orders'[i], "source") = "manual"]_vars

\* a manual order after the mapping table was changed and the modes were
\* flipped back to AUTO
C3_Witness ==
  /\ \E i \in 1..Len(_orders) : Get(_orders[i], "source") = "manual"
  /\ _statusMappings # MOCK_STATUS_MAPPINGS
  /\ localStorage = DEFAULT_AREA_MODES

\* C4 (as claimed): every order that is not manual has current_area equal to
\* its sap_area, the initial order table included.
C4_SystemAreaIsSapArea ==
  \A i \in 1..Len(_orders) :
    Get(_orders[i], "source") # "manual"
      => _orders[i].current_area = Get(_orders[i], "sap_area")

\* C4 (amended): every order that is not manual and whose sap_area is set has
\* current_area equal to its sap_area, and updateStatusMappings sets the
\* sap_area of every order.
C4_SystemAreaIsSapAreaWhenSet ==
  /\ \A i \in 1..Len(_orders) :
       (Get(_orders[i], "source") # "manual" /\ "sap_area" \in DOMAIN _orders[i])
         => _orders[i].current_area = _orders[i].sap_area
  /\ _statusMappings # MOCK_STATUS_MAPPINGS
       => \A i \in 1..Len(_orders) : "sap_area" \in DOMAIN _orders[i]

\* a system order that the edited mapping table took from Warehouse to Production
C4_Witness ==
  \E i \in 1..Len(_orders) :
    /\ Get(_orders[i], "source") # "manual"
    /\ _orders[i].System_Status = GMPS
    /\ Get(_orders[i], "sap_area") = "Production"

C6_ValidMoveApplied ==
  [][\A req \in FlowMoveRequest : \A i \in 1..Len(_orders) :
       LET o == _orders[i]
           pos(a) == CHOOSE k \in 1..Len(AREAS) : AREAS[k] = a
           nextStep == pos(req.target_area) = pos(o.current_area) + 1
           moveBack == pos(req.target_area) = pos(o.current_area) - 1
           valid == \/ nextStep /\ "justification" \notin DOMAIN req
                    \/ moveBack /\ "justification" \in DOMAIN req
                         /\ Len(trim(req.justification)) >= 5
       IN  (o.Order = req.order_id /\ valid /\ moveOrder(req)) =>
             /\ "error" \notin DOMAIN result'
             /\ _orders'[i].current_area = req.target_area
             /\ _orders'[i].source = "manual"
             /\ _orders'[i].sap_area = deriveArea(o.System_Status, _statusMappings)
             /\ _orders'[i].discrepancy
                  = (deriveArea(o.System_Status, _statusMappings) # req.target_area)]_vars

\* a justified move back Production -> Warehouse that agrees with the status
C6_Witness ==
  /\ Len(_moveAuditTrail) >= 1
  /\ LET e == _moveAuditTrail[Len(_moveAuditTrail)]
     IN  /\ e.from = "Production" /\ e.to = "Warehouse"
         /\ "justification" \in DOMAIN e /\ e.justification = rework
         /\ \E i \in 1..Len(_orders) :
              /\ _orders[i].Order = e.order_id
              /\ _orders[i].current_area = "Warehouse"
              /\ _orders[i].source = "manual"
              /\ ~Truthy(_orders[i], "discrepancy")

\* C7: a successful moveOrder appends exactly one audit entry, for the moved
\* order, from its current_area before the move, to target_area, and returns
\* those two areas as previous_area and current_area.
C7_OneAuditEntryPerMove ==
  [][\A req \in FlowMoveRequest : \A i \in 1..Len(_orders) :
       (_orders[i].Order = req.order_id /\ moveOrder(req)) =>
         /\ Len(_moveAuditTrail') = Len(_moveAuditTrail) + 1
         /\ SubSeq(_moveAuditTrail', 1, Len(_moveAuditTrail)) = _moveAuditTrail
         /\ LET e == _moveAuditTrail'[Len(_moveAuditTrail')]
            IN  /\ e.order_id = req.order_id
                /\ e.from = _orders[i].current_area
                /\ e.to = req.target_area
                /\ result'.order_id = req.order_id
                /\ result'.previous_area = e.from
                /\ result'.current_area = e.to]_vars

\* a move whose entry records two different areas
C7_Witness ==
  /\ Len(_moveAuditTrail) >= 1
  /\ LET e == _moveAuditTrail[Len(_moveAuditTrail)]
     IN  /\ e.from # e.to
         /\ "error" \notin DOMAIN result /\ result # undefined
         /\ result.previous_area = e.from /\ result.current_area = e.to

\* C8 (as claimed): a moveOrder that is a MoveBack with a missing
\* justification or one of trimmed length < 5 fails and changes neither the
\* order table nor the audit trail.
C8_MoveBackNeedsJustification ==
  [][\A req \in FlowMoveRequest : \A i \in 1..Len(_orders) :
       LET o == _orders[i]
           pos(a) == CHOOSE k \in 1..Len(AREAS) : AREAS[k] = a
           moveBack == pos(req.target_area) = pos(o.current_area) - 1
           tooShort == \/ "justification" \notin DOMAIN req
                       \/ Len(trim(req.justification)) < 5
       IN  (o.Order = req.order_id /\ moveBack /\ tooShort /\ moveOrder(req)) =>
             /\ "error" \in DOMAIN result'
             /\ UNCHANGED <<_orders, _moveAuditTrail>>]_vars

C10_FailedMoveMutatesNothing ==
  [][\A req \in FlowMoveRequest :
       moveOrder(req) =>
         /\ (\A i \in 1..Len(_orders) : _orders[i].Order # req.order_id)
              => result' = [error |-> "Order not found"]
         /\ "error" \in DOMAIN result'
              => UNCHANGED <<_orders, _moveAuditTrail, _statusMappings>>]_vars

\* a failed move after the order table and the trail had been written
C10_Witness ==
  /\ result = [error |-> "Order not found"]
  /\ Len(_moveAuditTrail) >= 1
  /\ \E i \in 1..Len(_orders) : Get(_orders[i], "source") = "manual"

\* C11: updateStatusMappings is idempotent: recomputing the order table that
\* an updateStatusMappings(M) step produced, again under M, gives that same
\* order table (and the mapping table in force is M both times).
C11_ApplyIdempotent ==
  [][\A mappings \in MappingTables :
       updateStatusMappings(mappings) =>
         /\ _statusMappings' = mappings
         /\ [i \in 1..Len(_orders') |-> recompute(_orders'[i], mappings)] = _orders']_vars

\* an applied table holding a manual order in discrepancy next to a system
\* order that the apply re-placed
C11_Witness ==
  /\ _statusMappings = EDITED_STATUS_MAPPINGS
  /\ Len(_orders) = 2
  /\ \E i, j \in 1..Len(_orders) :
       /\ Get(_orders[i], "source") = "manual" /\ Truthy(_orders[i], "discrepancy")
       /\ Get(_orders[i], "sap_area") = "Production"
       /\ Get(_orders[j], "source") # "manual" /\ _orders[j].System_Status = PCNF
       /\ _orders[j].current_area = "Orders"

\* C12: an updateStatusMappings(M) step leaves every order that is not
\* manually placed, at whatever position of the table, with current_area and
\* sap_area both equal to deriveArea(raw status, M), discrepancy false and
\* still not manual.
C12_SystemOrdersFollowMapping ==
  [][\A mappings \in MappingTables :
       updateStatusMappings(mappings) =>
         /\ Len(_orders') = Len(_orders)
         /\ \A i \in 1..Len(_orders) :
              Get(_orders[i], "source") # "manual" =>
                LET sapArea == deriveArea(_orders[i].System_Status, mappings)
                IN  /\ _orders'[i].current_area = sapArea
                    /\ _orders'[i].sap_area = sapArea
                    /\ _orders'[i].discrepancy = FALSE
                    /\ Get(_orders'[i], "source") # "manual"]_vars

\* two system orders that one apply of the edited table re-placed together
C12_Witness ==
  /\ _statusMappings = EDITED_STATUS_MAPPINGS
  /\ Len(_orders) = 2
  /\ \A i \in 1..Len(_orders) :
       Get(_orders[i], "source") # "manual" /\ "sap_area" \in DOMAIN _orders[i]
  /\ _orders[1].System_Status = PCNF /\ _orders[1].current_area = "Orders"
  /\ _orders[2].System_Status = GMPS /\ _orders[2].current_area = "Production"

\* C13 (as claimed): a mapping returned by getEffectiveStatus has a sort_order
\* at least that of every active row whose status value is a token of the
\* status string, whatever the mapping table; and "REL PRT PCNF" under
\* REL = 2, PCNF = 8 gives the PCNF row.
C13_MostAdvancedOfAllRows ==
  ("eff" \in DOMAIN returned /\ returned.eff # undefined) =>
    LET s == args.systemStatus
        m == args.mappings
        IsToken(i, j) ==
          /\ i <= j
          /\ \A k \in i..j : ~IsSpace(s[k])
          /\ (i = 1 \/ IsSpace(s[i - 1]))
          /\ (j = Len(s) \/ IsSpace(s[j + 1]))
    IN  /\ \A k \in 1..Len(m) :
             (m[k].is_active
                /\ \E i \in 1..Len(s), j \in 1..Len(s) :
                     IsToken(i, j) /\ SubSeq(s, i, j) = m[k].system_status_value)
               => returned.eff.sort_order >= m[k].sort_order
        /\ (s = join(<<REL, PRT, PCNF>>) /\ m = RANKED_STATUS_MAPPINGS)
             => returned.eff = RANKED_STATUS_MAPPINGS[2]

\* C13 (amended): a mapping returned by getEffectiveStatus has a sort_order at
\* least that of the first active row of every token of the status string
\* (a later active row of the same status value is never looked at); and
\* "REL PRT PCNF" under REL = 2, PCNF = 8 gives the PCNF row.
C13_MostAdvancedOfFirstRows ==
  ("eff" \in DOMAIN returned /\ returned.eff # undefined) =>
    LET s == args.systemStatus
        m == args.mappings
        IsToken(i, j) ==
          /\ i <= j
          /\ \A k \in i..j : ~IsSpace(s[k])
          /\ (i = 1 \/ IsSpace(s[i - 1]))
          /\ (j = Len(s) \/ IsSpace(s[j + 1]))
    IN  /\ \A k \in 1..Len(m) :
             (/\ m[k].is_active
              /\ \E i \in 1..Len(s), j \in 1..Len(s) :
                   IsToken(i, j) /\ SubSeq(s, i, j) = m[k].system_status_value
              /\ \A h \in 1..(k - 1) :
                   ~(m[h].is_active /\ m[h].system_status_value = m[k].system_status_value))
               => returned.eff.sort_order >= m[k].sort_order
        /\ (s = join(<<REL, PRT, PCNF>>) /\ m = RANKED_STATUS_MAPPINGS)
             => returned.eff = RANKED_STATUS_MAPPINGS[2]

\* the example of the glossary: REL PRT PCNF gives the PCNF row
C13_Witness ==
  /\ args # undefined /\ "systemStatus" \in DOMAIN args
  /\ args.systemStatus = join(<<REL, PRT, PCNF>>)
  /\ args.mappings = RANKED_STATUS_MAPPINGS
  /\ returned = [eff |-> RANKED_STATUS_MAPPINGS[2]]

\* C14: getEffectiveStatus returns the mapping of the leftmost token among the
\* tokens whose (first active) mapping has the highest sort_order: a token
\* further right wins only with a strictly greater sort_order; and it returns
\* undefined when no token has an active mapping.
C14_EarliestTokenWinsTie ==
  ("eff" \in DOMAIN returned) =>
    LET s == args.systemStatus
        m == args.mappings
        starts == {i \in 1..Len(s) : ~IsSpace(s[i]) /\ (i = 1 \/ IsSpace(s[i - 1]))}
        endOf(i) == CHOOSE j \in i..Len(s) :
                      /\ \A k \in i..j : ~IsSpace(s[k])
                      /\ (j = Len(s) \/ IsSpace(s[j + 1]))
        tokenAt(i) == SubSeq(s, i, endOf(i))
        rowsOf(i) == {k \in 1..Len(m) :
                        m[k].is_active /\ m[k].system_status_value = tokenAt(i)}
        rowOf(i) == m[CHOOSE k \in rowsOf(i) : \A h \in rowsOf(i) : k <= h]
        matched == {i \in starts : rowsOf(i) # {}}
        top == CHOOSE n \in {rowOf(i).sort_order : i \in matched} :
                 \A i \in matched : rowOf(i).sort_order <= n
        winner == CHOOSE i \in matched :
                    /\ rowOf(i).sort_order = top
                    /\ \A h \in matched : rowOf(h).sort_order = top => i <= h
    IN  IF matched = {} THEN returned.eff = undefined
        ELSE returned.eff = rowOf(winner)

\* PCNF and REL tie at sort_order 2 in the mock table; "PCNF REL" gives the
\* PCNF row although the REL row comes first in the table
C14_Witness ==
  /\ args # undefined /\ "systemStatus" \in DOMAIN args
  /\ args.systemStatus = join(<<PCNF, REL>>)
  /\ args.mappings = MOCK_STATUS_MAPPINGS
  /\ returned = [eff |-> MOCK_STATUS_MAPPINGS[3]]

\* C15: a mapping returned by getEffectiveStatus is a row of the table that is
\* active and whose status value is, character for character, one of the
\* whitespace-separated tokens of the status string; and the result is the
\* one obtained from the status string without its tokens that have no
\* active mapping.
C15_OnlyActiveExactMatches ==
  ("eff" \in DOMAIN returned) =>
    LET s == args.systemStatus
        m == args.mappings
        IsToken(i, j) ==
          /\ i <= j
          /\ \A k \in i..j : ~IsSpace(s[k])
          /\ (i = 1 \/ IsSpace(s[i - 1]))
          /\ (j = Len(s) \/ IsSpace(s[j + 1]))
        tokens == filterBoolean(split(trim(s), 1, <<>>))
        hasActive(t) == \E k \in 1..Len(m) :
                          m[k].is_active /\ m[k].system_status_value = t
    IN  /\ returned.eff # undefined =>
             /\ returned.eff.is_active
             /\ \E k \in 1..Len(m) : m[k] = returned.eff
             /\ \E i \in 1..Len(s), j \in 1..Len(s) :
                  IsToken(i, j) /\ SubSeq(s, i, j) = returned.eff.system_status_value
        /\ returned.eff = getEffectiveStatus(join(SelectSeq(tokens, hasActive)), m)

\* an inactive CLSD, a lower-case rel and GMPS: the GMPS row is returned
C15_Witness ==
  /\ args # undefined /\ "systemStatus" \in DOMAIN args
  /\ args.systemStatus = join(<<CLSD, rel, GMPS>>)
  /\ args.mappings = MOCK_STATUS_MAPPINGS
  /\ returned = [eff |-> MOCK_STATUS_MAPPINGS[2]]

\* C16 (as claimed): deriveArea returns the area of the mapping chosen by
\* getEffectiveStatus, and returns Orders exactly when no token of the status
\* string has an active mapping.
C16_OrdersIffNoMatch ==
  ("area" \in DOMAIN returned) =>
    LET s == args.systemStatus
        m == args.mappings
        eff == getEffectiveStatus(s, m)
        IsToken(i, j) ==
          /\ i <= j
          /\ \A k \in i..j : ~IsSpace(s[k])
          /\ (i = 1 \/ IsSpace(s[i - 1]))
          /\ (j = Len(s) \/ IsSpace(s[j + 1]))
        noMatch == ~\E k \in 1..Len(m), i \in 1..Len(s), j \in 1..Len(s) :
                      /\ m[k].is_active
                      /\ IsToken(i, j) /\ SubSeq(s, i, j) = m[k].system_status_value
    IN  /\ eff # undefined => returned.area = eff.mapped_area
        /\ returned.area = "Orders" <=> noMatch

\* C16 (amended): deriveArea returns Orders when no token of the status string
\* has an active mapping, and otherwise the area of the mapping chosen by
\* getEffectiveStatus, which may itself be Orders.
C16_OrdersWhenNoMatch ==
  ("area" \in DOMAIN returned) =>
    LET s == args.systemStatus
        m == args.mappings
        eff == getEffectiveStatus(s, m)
        IsToken(i, j) ==
          /\ i <= j
          /\ \A k \in i..j : ~IsSpace(s[k])
          /\ (i = 1 \/ IsSpace(s[i - 1]))
          /\ (j = Len(s) \/ IsSpace(s[j + 1]))
        noMatch == ~\E k \in 1..Len(m), i \in 1..Len(s), j \in 1..Len(s) :
                      /\ m[k].is_active
                      /\ IsToken(i, j) /\ SubSeq(s, i, j) = m[k].system_status_value
    IN  /\ noMatch => returned.area = "Orders"
        /\ ~noMatch => (eff # undefined /\ returned.area = eff.mapped_area)

\* an all-whitespace status string under the mock table gives Orders
C16_Witness ==
  /\ args # undefined /\ "systemStatus" \in DOMAIN args
  /\ args.systemStatus = <<" ", " ", " ">>
  /\ args.mappings = MOCK_STATUS_MAPPINGS
  /\ returned = [area |-> "Orders"]

\* C17 (as claimed): computeFlowErrors emits an E1_DISCREPANCY error for an
\* order exactly when the order is manual and the area derived afresh from
\* its status under the mapping table passed in differs from its
\* current_area, whatever sap_area the order caches.
C17_DiscrepancyRecomputedFresh ==
  ("errors" \in DOMAIN returned) =>
    \A i \in 1..Len(args.orders) :
      LET o == args.orders[i]
      IN  (\E k \in 1..Len(returned.errors) :
             /\ returned.errors[k].category = "E1_DISCREPANCY"
             /\ returned.errors[k].order_id = o.Order)
            <=> (/\ Get(o, "source") = "manual"
                 /\ deriveArea(o.System_Status, args.mappings) # o.current_area)

\* C18: for every order of the list, computeFlowErrors emits as many
\* E4_INVALID errors as the order violates of the three rules: start date
\* later than finish date, order quantity <= 0, delivered quantity greater
\* than order quantity.
C18_OneInvalidPerViolatedRule ==
  ("errors" \in DOMAIN returned) =>
    \A i \in 1..Len(args.orders) :
      LET o == args.orders[i]
          digit(d, k) == codeUnit(d[k]) - 48
          day(d) == (((((((digit(d, 1) * 10 + digit(d, 2)) * 10 + digit(d, 3)) * 10
                          + digit(d, 4)) * 10 + digit(d, 6)) * 10 + digit(d, 7)) * 10
                          + digit(d, 9)) * 10 + digit(d, 10))
          startLater == /\ Len(o.Start_date_sched) = 10
                        /\ Len(o.Scheduled_finish_date) = 10
                        /\ day(o.Start_date_sched) > day(o.Scheduled_finish_date)
          violated == (IF startLater THEN 1 ELSE 0)
                        + (IF o.Order_quantity <= 0 THEN 1 ELSE 0)
                        + (IF o.Delivered_quantity > o.Order_quantity THEN 1 ELSE 0)
      IN  Cardinality({k \in 1..Len(returned.errors) :
                         /\ returned.errors[k].category = "E4_INVALID"
                         /\ returned.errors[k].order_id = o.Order}) = violated

\* an order of quantity 100 with 150 delivered gets one E4_INVALID, next to
\* an order that violates all three rules and gets three
C18_Witness ==
  /\ "errors" \in DOMAIN returned
  /\ Len(args.orders) = 2
  /\ args.orders[1].Order_quantity = 100 /\ args.orders[1].Delivered_quantity = 150
  /\ args.orders[1].Start_date_sched = Dec31 /\ args.orders[1].Scheduled_finish_date = Jan09
  /\ args.orders[2] = SECOND_ORDER
  /\ Cardinality({k \in 1..Len(returned.errors) :
                    /\ returned.errors[k].category = "E4_INVALID"
                    /\ returned.errors[k].order_id = args.orders[1].Order}) = 1
  /\ Cardinality({k \in 1..Len(returned.errors) :
                    /\ returned.errors[k].category = "E4_INVALID"
                    /\ returned.errors[k].order_id = SECOND_ORDER.Order}) = 3

\* C19: a step in which computeFlowErrors returns leaves the orders and the
\* mappings it was passed, the shared order table, the mapping table and the
\* audit trail as they were.
C19_ComputeFlowErrorsReadOnly ==
  [][("errors" \in DOMAIN returned') =>
       /\ args' = args
       /\ _orders' = _orders
       /\ _statusMappings' = _statusMappings
       /\ _moveAuditTrail' = _moveAuditTrail]_vars

\* a call that derived the SAP area of a manual order itself, reported it in
\* an E1 error, and left the order without a cached sap_area
C19_Witness ==
  /\ "errors" \in DOMAIN returned
  /\ Len(args.orders) >= 1
  /\ Get(args.orders[1], "source") = "manual"
  /\ "sap_area" \notin DOMAIN args.orders[1]
  /\ \E k \in 1..Len(returned.errors) :
       /\ returned.errors[k].category = "E1_DISCREPANCY"
       /\ returned.errors[k].order_id = args.orders[1].Order
       /\ returned.errors[k].sap_area = "Production"

C21_MissingCategoryEmpty ==
  ("errors" \in DOMAIN returned) =>
    \A k \in 1..Len(returned.errors) :
      /\ returned.errors[k].category # "E3_MISSING"
      /\ returned.errors[k].category \in {"E1_DISCREPANCY", "E2_REGRESS", "E4_INVALID"}

\* a returned list that holds all three computed categories, for an order
\* list with an order flagged as changed without a field list
C21_Witness ==
  /\ "errors" \in DOMAIN returned
  /\ {returned.errors[k].category : k \in 1..Len(returned.errors)}
       = {"E1_DISCREPANCY", "E2_REGRESS", "E4_INVALID"}
  /\ \E i \in 1..Len(args.orders) :
       /\ Truthy(args.orders[i], "has_changes")
       /\ "changed_fields" \notin DOMAIN args.orders[i]

\* C22 (as claimed): a saveAreaModes of a map whose key set is not exactly
\* {Warehouse, Production, Logistics} leaves the stored modes as they were.
C22_MalformedModesRejected ==
  [][\A modes \in AreaModesInputs :
       (DOMAIN modes # {"Warehouse", "Production", "Logistics"} /\ saveAreaModes(modes))
         => localStorage' = localStorage]_vars

\* C23: getAreaModes returns a map that defines Warehouse, Production and
\* Logistics, each with the value the stored document gives it, and AUTO for
\* an area the document lacks; with nothing stored or a stored text that does
\* not parse all three are AUTO.
C23_ModesDefaultToAuto ==
  [][GetAreaModes =>
       LET modes == returned'.modes
       IN  /\ {"Warehouse", "Production", "Logistics"} \subseteq DOMAIN modes
           /\ \A a \in {"Warehouse", "Production", "Logistics"} :
                IF localStorage \in AreaModesInputs /\ a \in DOMAIN localStorage
                THEN modes[a] = localStorage[a]
                ELSE modes[a] = "AUTO"]_vars

\* a stored document that sets Warehouse only, read back with Production and
\* Logistics filled in as AUTO
C23_Witness ==
  /\ localStorage = [Warehouse |-> "MANUAL"]
  /\ returned = [modes |-> [Warehouse |-> "MANUAL", Production |-> "AUTO",
                            Logistics |-> "AUTO"]]

C25_MovesAreAdjacent ==
  [][LET pos(a) == CHOOSE k \in 1..Len(AREAS) : AREAS[k] = a
         adjacent(from, to) == pos(to) = pos(from) + 1 \/ pos(to) = pos(from) - 1
         idx(id) == findIndex(_orders, id, 1)
     IN  /\ \A req \in FlowMoveRequest :
              (moveOrder(req) /\ idx(req.order_id) # 0)
                => adjacent(_orders[idx(req.order_id)].current_area, req.target_area)
         /\ \A id \in KnownIds, area \in Area :
              demoMoveOrder(id, area) => adjacent(_orders[idx(id)].current_area, area)]_vars

\* C26: on the Warehouse page no step moves an order from Warehouse forward
\* to Production (Mark Ready or a confirmed Next Step) while the issue store
\* holds an OPEN issue of that order.
C26_NoForwardMoveWithOpenIssue ==
  [][\A k \in 1..Len(_orders) :
       (_orders[k].current_area = "Warehouse" /\ _orders'[k].current_area = "Production")
         => ~\E n \in 1..Len(_issues) :
               _issues[n].order_id = _orders[k].Order /\ _issues[n].status = "OPEN"]_vars

\* C27: in every reachable state every order with source manual has an
\* audit entry for its order_id, and the latest such entry has to equal to
\* the order's current_area.
C27_ManualOrdersAreAudited ==
  \A k \in 1..Len(_orders) :
    Get(_orders[k], "source") = "manual" =>
      LET entries == SelectSeq(_moveAuditTrail, LAMBDA e : e.order_id = _orders[k].Order)
      IN  /\ Len(entries) > 0
          /\ entries[Len(entries)].to = _orders[k].current_area

\* C28: the cached sap_area is never stale: in every reachable state every
\* order whose sap_area is set has sap_area equal to deriveArea of its
\* System_Status under the current mapping table.
C28_CachedSapAreaIsFresh ==
  \A k \in 1..Len(_orders) :
    "sap_area" \in DOMAIN _orders[k] =>
      _orders[k].sap_area = deriveArea(_orders[k].System_Status, _statusMappings)

\* a manually placed GMPS order whose cached area followed a mapping edit
C28_Witness ==
  /\ _statusMappings = EDITED_STATUS_MAPPINGS
  /\ _orders[1].System_Status = GMPS
  /\ Get(_orders[1], "source") = "manual"
  /\ Get(_orders[1], "sap_area") = "Production"
  /\ Len(_moveAuditTrail) = 1

\* C29: a move and a mapping save commute on the order table: from any
\* reachable table, moveOrder(X, T) followed by updateStatusMappings(M)
\* leaves the same current_area, source, sap_area and discrepancy for every
\* order as updateStatusMappings(M) followed by moveOrder(X, T).
C29_MoveAndApplyCommute ==
  ("moveThenApply" \in DOMAIN returned) =>
    /\ Len(returned.moveThenApply) = Len(returned.applyThenMove)
    /\ \A k \in 1..Len(returned.moveThenApply) :
         \A f \in {"Order", "current_area", "source", "sap_area", "discrepancy"} :
           Get(returned.moveThenApply[k], f) = Get(returned.applyThenMove[k], f)

\* the move placed the first order against the new table and the save moved
\* the second, system-placed order
C29_Witness ==
  /\ "moveThenApply" \in DOMAIN returned
  /\ Get(returned.moveThenApply[1], "source") = "manual"
  /\ Get(returned.moveThenApply[1], "discrepancy") = TRUE
  /\ Get(returned.moveThenApply[1], "sap_area") = "Production"
  /\ Get(returned.moveThenApply[2], "source") # "manual"
  /\ returned.moveThenApply[2].current_area # mapArea(returned.moveThenApply[2].System_Status)

\* C30: a successful moveOrder(X, T) changes only order X: every other
\* order keeps its current_area, source, sap_area and discrepancy, the
\* table keeps its length and the order of its orders, and the mapping
\* table and the stored area modes are unchanged.
C30_MoveChangesOnlyItsOrder ==
  [][\A req \in FlowMoveRequest :
       LET idx == findIndex(_orders, req.order_id, 1)
       IN  (moveOrder(req) /\ idx # 0) =>
             /\ Len(_orders') = Len(_orders)
             /\ \A i \in 1..Len(_orders) : _orders'[i].Order = _orders[i].Order
             /\ \A i \in 1..Len(_orders) \ {idx} :
                  \A f \in {"current_area", "source", "sap_area", "discrepancy"} :
                    Get(_orders'[i], f) = Get(_orders[i], f)
             /\ _statusMappings' = _statusMappings
             /\ localStorage' = localStorage]_vars

\* a GMPS order moved after a mapping save had sent it to Production, next
\* to an order that the save recomputed, with area modes stored
C30_Witness ==
  /\ Len(_moveAuditTrail) = 1
  /\ _moveAuditTrail[1].from = "Production"
  /\ _orders[1].System_Status = GMPS
  /\ Get(_orders[1], "source") = "manual"
  /\ "sap_area" \in DOMAIN _orders[2]
  /\ Get(_orders[2], "source") # "manual"
  /\ localStorage # undefined
  /\ "order_id" \in DOMAIN result
====
